---- MODULE Spec2Model ----
(***************************************************************************)
(* A model of the sonatina IR core: the data-flow graph (dfg.rs), the      *)
(* module builder and function store (module_builder.rs, module.rs) and    *)
(* the function builder with its SSA construction (func_builder.rs).       *)
(*                                                                         *)
(* Handles (Value, Insn, Block) are arena indices.  The model numbers them *)
(* from 1 and writes 0 for an absent handle (PackedOption / Option None).  *)
(***************************************************************************)
EXTENDS Integers, Sequences, FiniteSets, TLC

VARIABLES
    dfg,        \* the DataFlowGraph of the function under construction
    last,       \* the last operation performed, its inputs and its result
    panicked,   \* TRUE once an operation has panicked (assertion, unwrap)
    imm_hist,   \* history: per immediate, the handle its first make_imm_value returned
    mod,        \* the ModuleBuilder's shared state: function store and the two indexes
    threads,    \* per thread: its position inside declare_function and its locals
    decl_hist,  \* history: what declare_function has returned, and each name's first call
    layout,     \* Function.layout: per block, in append order, its instruction list
    loc,        \* FunctionBuilder.loc, the CursorLocation
    ssa,        \* FunctionBuilder.ssa_builder
    held,       \* the Value the frontend got from its latest use_var
    emitted,    \* history: per block, the instructions in the order the builder emitted them
    shard_of,   \* FuncStore.funcs, the DashMap's layout: the shard each stored FuncRef is in
    par,        \* the par_for_each call: its phase and the shards no worker has taken yet
    workers,    \* per pool worker: the shard it holds locked and the function it is in
    clients,    \* per other thread: the modify / view call it is inside
    visits      \* history: per FuncRef, how many times par_for_each has passed it to f

dfgVars == <<dfg, imm_hist>>

parVars == <<shard_of, par, workers, clients, visits>>

modVars == <<mod, threads, decl_hist, parVars>>

bldVars == <<layout, loc, ssa, held, emitted>>

\* what the DFG's operations leave alone, and what the module's do
notDfg == <<mod, threads, decl_hist, layout, loc, ssa, held, emitted, parVars>>

notMod == <<dfg, imm_hist, panicked, layout, loc, ssa, held, emitted, parVars>>

vars == <<dfg, last, panicked, imm_hist, mod, threads, decl_hist,
          layout, loc, ssa, held, emitted, parVars>>

(***************************************************************************)
(* Bounds of the model.                                                    *)
(***************************************************************************)
MaxSize == 5
MaxValues == 2
MaxBlocks == 2
MaxThreads == 2
MaxCalls == 2
MaxSeqCalls == 5
MaxCases == 2
MaxShards == 2
MaxWorkers == 2
MaxClients == 2
MaxFuncs == 3
MaxBuilderBlocks == 2
MaxBuilderSize == 5
MaxVars == 1
MaxSealSize == 8

Imms == {0, 1}

None == 0

Range(s) == {s[i] : i \in DOMAIN s}

SeqsUpTo(S, n) == UNION {[1..k -> S] : k \in 0..n}

(***************************************************************************)
(* InsnData.  One record shape for all variants:                           *)
(*   args    the operand list returned by InsnData::args()                 *)
(*   blocks  Jump/Branch: dests; BrTable: table; Phi: blocks               *)
(*   default BrTable: the default destination (None when absent)           *)
(***************************************************************************)
InsnData(kind, args, blocks, default) ==
    [kind |-> kind, args |-> args, blocks |-> blocks, default |-> default]

jump(dest) == InsnData("Jump", <<>>, <<dest>>, None)

is_phi(data) == data.kind = "Phi"

is_branch(data) == data.kind \in {"Jump", "Branch", "BrTable"}

\* BranchInfo::dests_num of InsnData::analyze_branch
dests_num(data) ==
    CASE data.kind = "Jump" -> 1
      [] data.kind = "Branch" -> 2
      [] data.kind = "BrTable" ->
            Len(data.blocks) + (IF data.default # None THEN 1 ELSE 0)
      [] OTHER -> 0

\* BranchInfo::iter_dests: the default first, then the table in order
iter_dests(data) ==
    IF data.kind = "BrTable" /\ data.default # None
    THEN <<data.default>> \o data.blocks
    ELSE IF is_branch(data) THEN data.blocks ELSE <<>>

(***************************************************************************)
(* DataFlowGraph.                                                          *)
(*   values        PrimaryMap<Value, ValueData>, a sequence                *)
(*   insns         PrimaryMap<Insn, InsnData>, a sequence                  *)
(*   insn_results  SecondaryMap<Insn, PackedOption<Value>>                 *)
(*   immediates    FxHashMap<Immediate, Value>, a function on the interned *)
(*                 immediates                                              *)
(*   users         SecondaryMap<Value, BTreeSet<Insn>>, as the relation    *)
(*                 {<<v, i>> : i \in users[v]}                             *)
(*   nblocks       the length of the blocks arena                          *)
(***************************************************************************)
DataFlowGraph_new ==
    [values |-> <<>>, insns |-> <<>>, insn_results |-> <<>>,
     immediates |-> <<>>, users |-> {}, nblocks |-> 0]

users(d, value) == {p[2] : p \in {q \in d.users : q[1] = value}}

users_num(d, value) == Cardinality(users(d, value))

insn_args(d, insn) == d.insns[insn].args

insn_args_num(d, insn) == Len(insn_args(d, insn))

insn_result(d, insn) == d.insn_results[insn]

value_insn(d, value) ==
    IF d.values[value].kind = "Insn" THEN d.values[value].insn ELSE None

make_block(d) == [d EXCEPT !.nblocks = @ + 1]

make_value(d, value_data) == [d EXCEPT !.values = Append(@, value_data)]

attach_user(d, insn) ==
    [d EXCEPT !.users = @ \cup {<<arg, insn>> : arg \in Range(d.insns[insn].args)}]

remove_user(d, value, user) == [d EXCEPT !.users = @ \ {<<value, user>>}]

make_insn(d, data) ==
    attach_user([d EXCEPT !.insns = Append(@, data),
                          !.insn_results = Append(@, None)],
                Len(d.insns) + 1)

make_imm_value_AlwaysAllocates(d, imm) ==
    [dfg |-> [make_value(d, [kind |-> "Immediate", imm |-> imm]) EXCEPT
                 !.immediates = (imm :> (Len(d.values) + 1)) @@ @],
     value |-> Len(d.values) + 1]

\* returns the graph and the handle
make_imm_value(d, imm) ==
    IF imm \in DOMAIN d.immediates
    THEN [dfg |-> d, value |-> d.immediates[imm]]
    ELSE [dfg |-> [make_value(d, [kind |-> "Immediate", imm |-> imm]) EXCEPT
                      !.immediates = (imm :> (Len(d.values) + 1)) @@ @],
          value |-> Len(d.values) + 1]

replace_insn(d, insn, insn_data) ==
    LET removed == [d EXCEPT !.users =
                        @ \ {<<arg, insn>> : arg \in Range(d.insns[insn].args)}]
    IN attach_user([removed EXCEPT !.insns[insn] = insn_data], insn)

\* change_to_alias giving the slot of the aliased value back when it is the
\* newest one
change_to_alias_FreesValue(d, value, alias) ==
    LET taken == users(d, value)
        emptied == [d EXCEPT !.users = {p \in @ : p[1] # value}]
        rewritten == [emptied EXCEPT !.insns =
            [i \in DOMAIN @ |->
                IF i \in taken
                THEN [@[i] EXCEPT !.args =
                        [k \in DOMAIN @ |-> IF @[k] = value THEN alias ELSE @[k]]]
                ELSE @[i]]]
        moved == [rewritten EXCEPT !.users = @ \cup {<<alias, i>> : i \in taken}]
    IN IF value = Len(d.values) /\ value # alias
       THEN [moved EXCEPT !.values = SubSeq(@, 1, value - 1)]
       ELSE moved

change_to_alias(d, value, alias) ==
    LET taken == users(d, value)
        emptied == [d EXCEPT !.users = {p \in @ : p[1] # value}]
        rewritten == [emptied EXCEPT !.insns =
            [i \in DOMAIN @ |->
                IF i \in taken
                THEN [@[i] EXCEPT !.args =
                        [k \in DOMAIN @ |-> IF @[k] = value THEN alias ELSE @[k]]]
                ELSE @[i]]]
    IN [rewritten EXCEPT !.users = @ \cup {<<alias, i>> : i \in taken}]

\* attach_result with its debug assertion compiled out
attach_result_panics_Never(d, insn) == FALSE

\* debug_assert!(self.insn_results[insn].is_none())
attach_result_panics(d, insn) == insn_result(d, insn) # None

\* a result value for insn, attached to it (make_result, make_value, attach_result)
attach_result(d, insn, value) == [d EXCEPT !.insn_results[insn] = value]

make_result_value(d, insn) ==
    attach_result(make_value(d, [kind |-> "Insn", insn |-> insn]),
                  insn, Len(d.values) + 1)

\* InsnData::append_phi_arg
phi_append(data, value, block) ==
    [data EXCEPT !.args = Append(@, value), !.blocks = Append(@, block)]

\* append_phi_arg putting the new entry first
append_phi_arg_Prepends(d, insn, value, block) ==
    attach_user([d EXCEPT !.insns[insn] =
                    [@ EXCEPT !.args = <<value>> \o @, !.blocks = <<block>> \o @]],
                insn)

append_phi_arg(d, insn, value, block) ==
    attach_user([d EXCEPT !.insns[insn] = phi_append(@, value, block)], insn)

RemoveAt(s, i) == [k \in 1..(Len(s) - 1) |-> IF k < i THEN s[k] ELSE s[k + 1]]

\* the position of the first phi entry whose block is from (0 when there is none)
phi_index(data, from) ==
    IF \E k \in DOMAIN data.blocks : data.blocks[k] = from
    THEN CHOOSE k \in DOMAIN data.blocks :
            /\ data.blocks[k] = from
            /\ \A j \in 1..(k - 1) : data.blocks[j] # from
    ELSE 0

remove_phi_arg_panics(d, insn, from) ==
    ~is_phi(d.insns[insn]) \/ phi_index(d.insns[insn], from) = 0

\* returns the graph and the removed value
remove_phi_arg(d, insn, from) ==
    LET index == phi_index(d.insns[insn], from)
        removed == d.insns[insn].args[index]
        d1 == [d EXCEPT !.insns[insn] =
                  [@ EXCEPT !.args = RemoveAt(@, index),
                            !.blocks = RemoveAt(@, index)]]
    IN [dfg |-> remove_user(d1, removed, insn), value |-> removed]

\* replace_insn_arg dropping the old operand's user edge without looking
replace_insn_arg_AlwaysRemoves(d, insn, new_arg, idx) ==
    LET old_arg == d.insns[insn].args[idx]
        d1 == [d EXCEPT !.users = @ \cup {<<new_arg, insn>>},
                        !.insns[insn].args[idx] = new_arg]
    IN [dfg |-> remove_user(d1, old_arg, insn), value |-> old_arg]

\* returns the graph and the old operand
replace_insn_arg(d, insn, new_arg, idx) ==
    LET old_arg == d.insns[insn].args[idx]
        d1 == [d EXCEPT !.users = @ \cup {<<new_arg, insn>>},
                        !.insns[insn].args[idx] = new_arg]
    IN [dfg |-> IF \A k \in DOMAIN d1.insns[insn].args :
                      d1.insns[insn].args[k] # old_arg
                THEN remove_user(d1, old_arg, insn)
                ELSE d1,
        value |-> old_arg]

\* remove_branch_dest taking any block for a destination of a Branch
remove_branch_dest_panics_AnyDest(d, insn, dest) ==
    LET this == d.insns[insn]
    IN \/ this.kind = "Jump"
       \/ this.kind \notin {"Jump", "Branch", "BrTable"}

remove_branch_dest_panics(d, insn, dest) ==
    LET this == d.insns[insn]
    IN \/ this.kind = "Jump"
       \/ this.kind \notin {"Jump", "Branch", "BrTable"}
       \/ this.kind = "Branch" /\ this.blocks[1] # dest /\ this.blocks[2] # dest

remove_branch_dest(d, insn, dest) ==
    LET this == d.insns[insn]
    IN IF this.kind = "Branch"
       THEN LET remain == IF this.blocks[1] = dest THEN this.blocks[2]
                          ELSE this.blocks[1]
            IN [d EXCEPT !.users = @ \ {<<this.args[1], insn>>},
                         !.insns[insn] = jump(remain)]
       ELSE \* BrTable
            LET rest == Tail(this.args)
                n == IF Len(this.blocks) < Len(rest) THEN Len(this.blocks)
                     ELSE Len(rest)
                keepIdx == {k \in 1..n : this.blocks[k] # dest}
                dropIdx == {k \in 1..n : this.blocks[k] = dest}
                Pick(s) == LET F[k \in 0..n] ==
                                  IF k = 0 THEN <<>>
                                  ELSE IF k \in keepIdx THEN Append(F[k - 1], s[k])
                                  ELSE F[k - 1]
                           IN F[n]
                edited ==
                    IF this.default = dest
                    THEN [this EXCEPT !.default = None]
                    ELSE IF this.args # <<>>
                    THEN [this EXCEPT !.args = <<this.args[1]>> \o Pick(rest),
                                      !.blocks = Pick(this.blocks)]
                    ELSE this
                dropped ==
                    IF this.default # dest /\ this.args # <<>>
                    THEN {<<rest[k], insn>> : k \in dropIdx}
                    ELSE {}
                d1 == [d EXCEPT !.users = @ \ dropped, !.insns[insn] = edited]
            IN IF dests_num(edited) = 1
               THEN [d1 EXCEPT !.users = @ \ {<<val, insn>> : val \in Range(edited.args)},
                               !.insns[insn] = jump(iter_dests(edited)[1])]
               ELSE d1

\* InsnData::rewrite_branch_dest
insn_rewrite_branch_dest(data, from, to) ==
    [data EXCEPT !.blocks = [k \in DOMAIN @ |-> IF @[k] = from THEN to ELSE @[k]],
                 !.default = IF @ = from /\ from # None THEN to ELSE @]

\* rewrite_branch_dest taking the instruction out of its operands' user sets
rewrite_branch_dest_DetachesUsers(d, insn, from, to) ==
    [d EXCEPT !.insns[insn] = insn_rewrite_branch_dest(@, from, to),
              !.users = {p \in @ : p[2] # insn}]

rewrite_branch_dest(d, insn, from, to) ==
    [d EXCEPT !.insns[insn] = insn_rewrite_branch_dest(@, from, to)]

(***************************************************************************)
(* The DFG under an arbitrary client: any sequence of its public mutators. *)
(***************************************************************************)
ValueIds(d) == 1..Len(d.values)

InsnIds(d) == 1..Len(d.insns)

BlockIds == 1..MaxBlocks

\* the size of an instruction: itself, its operands and its block references
SizeOf(data) == 1 + Len(data.args) + Len(data.blocks)

RECURSIVE SumSizes(_)
SumSizes(insns) ==
    IF insns = <<>> THEN 0 ELSE SizeOf(Head(insns)) + SumSizes(Tail(insns))

\* the room left in the instruction arena
Room(d) == MaxSize - SumSizes(d.insns)

Entries(d, n) == SeqsUpTo(ValueIds(d) \X BlockIds, n)

Firsts(es) == [k \in DOMAIN es |-> es[k][1]]

Seconds(es) == [k \in DOMAIN es |-> es[k][2]]

\* the instruction data of size at most room a client may hand to make_insn
\* and replace_insn
InsnInputs(d, room) ==
    LET n == IF room < 2 THEN 0 ELSE (room - 1) \div 2
        all ==
            {InsnData("Binary", <<a, b>>, <<>>, None) :
                a \in ValueIds(d), b \in ValueIds(d)}
            \cup {jump(b) : b \in BlockIds}
            \cup {InsnData("Branch", <<c>>, <<b1, b2>>, None) :
                    c \in ValueIds(d), b1 \in BlockIds, b2 \in BlockIds}
            \cup {InsnData("BrTable", <<c>> \o Firsts(es), Seconds(es), df) :
                    c \in ValueIds(d), es \in Entries(d, n),
                    df \in {None} \cup BlockIds}
            \cup {InsnData("Phi", Firsts(es), Seconds(es), None) :
                    es \in Entries(d, n)}
    IN {data \in all : SizeOf(data) <= room}

Op(op, a, b, ret) == [op |-> op, a |-> a, b |-> b, ret |-> ret]

Threads == 1..MaxThreads

Names == {"f", "g"}

\* a Signature: its name, and a tag telling apart signatures of one name
Signatures == [name : Names, variant : {1, 2}]

NoRef == -1

NoSig == [name |-> "", variant |-> 0]

InitThread == [pc |-> "idle", sig |-> NoSig, func_ref |-> NoRef, calls |-> 0]

\* ModuleBuilder::new
\*   funcs               FuncStore.funcs, DashMap<FuncRef, Function>
\*   declared_funcs      ModuleBuilder.declared_funcs, DashMap<String, FuncRef>
\*   ctx_declared_funcs  ModuleCtx.declared_funcs, DashMap<FuncRef, Signature>
ModuleBuilder_new ==
    [funcs |-> <<>>, declared_funcs |-> <<>>, ctx_declared_funcs |-> <<>>]

InitDeclHist ==
    [first |-> [n \in Names |-> [ref |-> NoRef, sig |-> NoSig]], rets |-> {}]

Shards == 1..MaxShards

Workers == 1..MaxWorkers

Clients == 1..MaxClients

\* a rayon worker that holds no shard
IdleWorker == [pc |-> "idle", shard |-> None, todo |-> {}, func_ref |-> NoRef]

\* a thread that is in no call on the store
IdleClient == [pc |-> "idle", func_ref |-> NoRef]

IdlePar ==
    /\ shard_of = <<>>
    /\ par = [phase |-> "idle", pending |-> {}, at_start |-> {}]
    /\ workers = [w \in Workers |-> IdleWorker]
    /\ clients = [c \in Clients |-> IdleClient]
    /\ visits = <<>>

IdleMod ==
    /\ mod = ModuleBuilder_new
    /\ threads = [t \in Threads |-> InitThread]
    /\ decl_hist = InitDeclHist
    /\ IdlePar

IdleDfg ==
    /\ dfg = DataFlowGraph_new
    /\ imm_hist = [x \in Imms |-> None]

\* CursorLocation
NoWhere == [kind |-> "NoWhere", at |-> None]

At(insn) == [kind |-> "At", at |-> insn]

BlockBottom(block) == [kind |-> "BlockBottom", at |-> block]

\* SsaBuilder::new
\*   nvars            the number of declared variables
\*   defs             (Block, Variable) -> Value, a function on the pairs that are set
\*   preds            Block -> ordered list of Block
\*   sealed           the set of sealed blocks
\*   incomplete_phis  Block -> list of <<Variable, Insn>>
SsaBuilder_new ==
    [nvars |-> 0, defs |-> <<>>,
     preds |-> [b \in 1..(MaxBuilderBlocks + 1) |-> <<>>],
     sealed |-> {},
     incomplete_phis |-> [b \in 1..(MaxBuilderBlocks + 1) |-> <<>>]]

\* FunctionBuilder::new
IdleBld ==
    /\ layout = <<>>
    /\ loc = NoWhere
    /\ ssa = SsaBuilder_new
    /\ held = None
    /\ emitted = <<>>

InitDfg ==
    /\ IdleMod
    /\ IdleBld
    /\ dfg = DataFlowGraph_new
    /\ last = Op("new", 0, 0, 0)
    /\ panicked = FALSE
    /\ imm_hist = [x \in Imms |-> None]

MakeImmValue ==
    /\ ~panicked
    /\ \E x \in Imms :
        /\ x \in DOMAIN dfg.immediates \/ Len(dfg.values) < MaxValues
        /\ LET r == make_imm_value(dfg, x)
           IN /\ dfg' = r.dfg
              /\ last' = Op("make_imm_value", x, imm_hist[x], r.value)
              /\ imm_hist' = [imm_hist EXCEPT ![x] = IF @ = None THEN r.value ELSE @]
    /\ UNCHANGED <<panicked, notDfg>>

MakeInsn ==
    /\ ~panicked
    /\ \E data \in InsnInputs(dfg, Room(dfg)) :
        /\ dfg' = make_insn(dfg, data)
        /\ last' = Op("make_insn", Len(dfg.insns) + 1, 0, Len(dfg.insns) + 1)
    /\ UNCHANGED <<panicked, imm_hist, notDfg>>

MakeResult ==
    /\ ~panicked
    /\ Len(dfg.values) < MaxValues
    /\ \E insn \in InsnIds(dfg) :
        /\ dfg.insns[insn].kind \in {"Binary", "Phi"}
        /\ last' = Op("attach_result", insn, 0, Len(dfg.values) + 1)
        /\ IF attach_result_panics(dfg, insn)
           THEN /\ panicked' = TRUE
                /\ dfg' = make_value(dfg, [kind |-> "Insn", insn |-> insn])
           ELSE /\ dfg' = make_result_value(dfg, insn)
                /\ UNCHANGED panicked
    /\ UNCHANGED <<imm_hist, notDfg>>

ReplaceInsn ==
    /\ ~panicked
    /\ \E insn \in InsnIds(dfg) :
      \E data \in InsnInputs(dfg, Room(dfg) + SizeOf(dfg.insns[insn])) :
        /\ dfg' = replace_insn(dfg, insn, data)
        /\ last' = Op("replace_insn", insn, 0, 0)
    /\ UNCHANGED <<panicked, imm_hist, notDfg>>

ReplaceInsnArg ==
    /\ ~panicked
    /\ \E insn \in InsnIds(dfg), new_arg \in ValueIds(dfg) :
        \E idx \in DOMAIN dfg.insns[insn].args :
            LET r == replace_insn_arg(dfg, insn, new_arg, idx)
            IN /\ dfg' = r.dfg
               /\ last' = Op("replace_insn_arg", insn, new_arg, r.value)
    /\ UNCHANGED <<panicked, imm_hist, notDfg>>

ChangeToAlias ==
    /\ ~panicked
    /\ \E value \in ValueIds(dfg), alias \in ValueIds(dfg) :
        /\ dfg' = change_to_alias(dfg, value, alias)
        /\ last' = Op("change_to_alias", value, alias, 0)
    /\ UNCHANGED <<panicked, imm_hist, notDfg>>

AppendPhiArg ==
    /\ ~panicked
    /\ \E insn \in InsnIds(dfg), value \in ValueIds(dfg), block \in BlockIds :
        /\ is_phi(dfg.insns[insn])
        /\ Room(dfg) >= 2
        /\ dfg' = append_phi_arg(dfg, insn, value, block)
        /\ last' = Op("append_phi_arg", insn, value, 0)
    /\ UNCHANGED <<panicked, imm_hist, notDfg>>

RemovePhiArg ==
    /\ ~panicked
    /\ \E insn \in InsnIds(dfg), from \in BlockIds :
        IF remove_phi_arg_panics(dfg, insn, from)
        THEN /\ panicked' = TRUE
             /\ last' = Op("remove_phi_arg", insn, from, 0)
             /\ UNCHANGED dfg
        ELSE LET r == remove_phi_arg(dfg, insn, from)
             IN /\ dfg' = r.dfg
                /\ last' = Op("remove_phi_arg", insn, from, r.value)
                /\ UNCHANGED panicked
    /\ UNCHANGED <<imm_hist, notDfg>>

RemoveBranchDest ==
    /\ ~panicked
    /\ \E insn \in InsnIds(dfg), dest \in BlockIds :
        IF remove_branch_dest_panics(dfg, insn, dest)
        THEN /\ panicked' = TRUE
             /\ last' = Op("remove_branch_dest", insn, dest, 0)
             /\ UNCHANGED dfg
        ELSE /\ dfg' = remove_branch_dest(dfg, insn, dest)
             /\ last' = Op("remove_branch_dest", insn, dest, 0)
             /\ UNCHANGED panicked
    /\ UNCHANGED <<imm_hist, notDfg>>

NextDfg ==
    \/ MakeImmValue
    \/ MakeInsn
    \/ MakeResult
    \/ ReplaceInsn
    \/ ReplaceInsnArg
    \/ ChangeToAlias
    \/ AppendPhiArg
    \/ RemovePhiArg
    \/ RemoveBranchDest

SpecDfg == InitDfg /\ [][NextDfg]_vars

(***************************************************************************)
(* ModuleBuilder::declare_function, step by step.  Each DashMap operation  *)
(* is atomic; FuncStore::insert holds the store's mutex from reading the   *)
(* length to inserting, so it is one step.                                 *)
(***************************************************************************)
Function_new(sig) == [sig |-> sig]

lookup_func(m, name) ==
    IF name \in DOMAIN m.declared_funcs THEN m.declared_funcs[name] ELSE NoRef

\* returns the store and the new FuncRef
FuncStore_insert(m, func) ==
    LET func_ref == Cardinality(DOMAIN m.funcs)
    IN [mod |-> [m EXCEPT !.funcs = (func_ref :> func) @@ @], func_ref |-> func_ref]

declared_funcs_insert(m, name, func_ref) ==
    [m EXCEPT !.declared_funcs = (name :> func_ref) @@ @]

ctx_declared_funcs_insert(m, func_ref, sig) ==
    [m EXCEPT !.ctx_declared_funcs = (func_ref :> sig) @@ @]

declare_function_LaterSigWins(m, sig) ==
    LET found == lookup_func(m, sig.name)
        ins == FuncStore_insert(m, Function_new(sig))
    IN IF found # NoRef
       THEN [mod |-> ctx_declared_funcs_insert(m, found, sig), func_ref |-> found]
       ELSE [mod |-> ctx_declared_funcs_insert(
                        declared_funcs_insert(ins.mod, sig.name, ins.func_ref),
                        ins.func_ref, sig),
             func_ref |-> ins.func_ref]

\* one whole call with no other call interleaved: the store and the FuncRef returned
declare_function(m, sig) ==
    LET found == lookup_func(m, sig.name)
        ins == FuncStore_insert(m, Function_new(sig))
    IN IF found # NoRef
       THEN [mod |-> m, func_ref |-> found]
       ELSE [mod |-> ctx_declared_funcs_insert(
                        declared_funcs_insert(ins.mod, sig.name, ins.func_ref),
                        ins.func_ref, sig),
             func_ref |-> ins.func_ref]

\* the history after a call for sig has returned func_ref
Returned(h, sig, func_ref) ==
    [first |-> IF h.first[sig.name].ref = NoRef
               THEN [h.first EXCEPT ![sig.name] = [ref |-> func_ref, sig |-> sig]]
               ELSE h.first,
     rets |-> h.rets \cup {<<sig.name, func_ref>>}]

InitMod ==
    /\ IdleMod
    /\ IdleDfg
    /\ IdleBld
    /\ last = Op("new", 0, 0, 0)
    /\ panicked = FALSE

\* declared_funcs.get(sig.name()): return the FuncRef found, or go on to declare
DeclLookup(t) ==
    /\ threads[t].pc = "idle"
    /\ threads[t].calls < MaxCalls
    /\ \E sig \in Signatures :
        LET found == lookup_func(mod, sig.name)
        IN IF found # NoRef
           THEN /\ threads' = [threads EXCEPT ![t].calls = @ + 1]
                /\ decl_hist' = Returned(decl_hist, sig, found)
           ELSE /\ threads' = [threads EXCEPT ![t].pc = "insert", ![t].sig = sig]
                /\ UNCHANGED decl_hist
    /\ UNCHANGED <<mod, last, notMod>>

\* self.funcs.insert(func)
DeclInsert(t) ==
    /\ threads[t].pc = "insert"
    /\ LET ins == FuncStore_insert(mod, Function_new(threads[t].sig))
       IN /\ mod' = ins.mod
          /\ threads' = [threads EXCEPT ![t].pc = "index", ![t].func_ref = ins.func_ref]
    /\ UNCHANGED <<decl_hist, last, notMod>>

\* self.declared_funcs.insert(name, func_ref)
DeclIndex(t) ==
    /\ threads[t].pc = "index"
    /\ mod' = declared_funcs_insert(mod, threads[t].sig.name, threads[t].func_ref)
    /\ threads' = [threads EXCEPT ![t].pc = "sig"]
    /\ UNCHANGED <<decl_hist, last, notMod>>

\* self.ctx.declared_funcs.insert(func_ref, sig); func_ref
DeclSig(t) ==
    /\ threads[t].pc = "sig"
    /\ mod' = ctx_declared_funcs_insert(mod, threads[t].func_ref, threads[t].sig)
    /\ decl_hist' = Returned(decl_hist, threads[t].sig, threads[t].func_ref)
    /\ threads' = [threads EXCEPT ![t] =
            [InitThread EXCEPT !.calls = threads[t].calls + 1]]
    /\ UNCHANGED <<last, notMod>>

NextMod ==
    \E t \in Threads :
        \/ DeclLookup(t)
        \/ DeclInsert(t)
        \/ DeclIndex(t)
        \/ DeclSig(t)

\* clones of one ModuleBuilder in several threads
SpecMod == InitMod /\ [][NextMod]_vars

\* one caller: each declare_function runs to its end before the next begins
DeclareFunction ==
    /\ threads[1].calls < MaxSeqCalls
    /\ \E sig \in Signatures :
        LET r == declare_function(mod, sig)
        IN /\ mod' = r.mod
           /\ decl_hist' = Returned(decl_hist, sig, r.func_ref)
           /\ last' = Op("declare_function", sig.name, sig.variant, r.func_ref)
    /\ threads' = [threads EXCEPT ![1].calls = @ + 1]
    /\ UNCHANGED notMod

NextSeq == DeclareFunction

SpecSeq == InitMod /\ [][NextSeq]_vars

(***************************************************************************)
(* C2: under any interleaving of declare_function calls through clones of  *)
(* one ModuleBuilder, all calls with one name return the same FuncRef, and *)
(* exactly one function and one signature are stored for that name.        *)
(***************************************************************************)
FuncsNamed(m, name) == {r \in DOMAIN m.funcs : m.funcs[r].sig.name = name}

SigsNamed(m, name) ==
    {r \in DOMAIN m.ctx_declared_funcs : m.ctx_declared_funcs[r].name = name}

C2_OneFuncRefPerName ==
    \A name \in Names :
        /\ \A p, q \in decl_hist.rets : p[1] = name /\ q[1] = name => p[2] = q[2]
        /\ Cardinality(FuncsNamed(mod, name)) <= 1
        /\ Cardinality(SigsNamed(mod, name)) <= 1
        /\ (\E p \in decl_hist.rets : p[1] = name) =>
                /\ Cardinality(FuncsNamed(mod, name)) = 1
                /\ Cardinality(SigsNamed(mod, name)) = 1

(***************************************************************************)
(* C3: sequential declare_function is idempotent by name.  Once a name has *)
(* been declared, every call with that name returns the first call's       *)
(* FuncRef, the store holds one function for the name, and the signature   *)
(* recorded for it is the first call's, also when a later one differs.     *)
(***************************************************************************)
C3_DeclareIdempotent ==
    \A name \in Names :
        LET first == decl_hist.first[name]
        IN first.ref # NoRef =>
            /\ \A p \in decl_hist.rets : p[1] = name => p[2] = first.ref
            /\ FuncsNamed(mod, name) = {first.ref}
            /\ mod.funcs[first.ref] = Function_new(first.sig)
            /\ SigsNamed(mod, name) = {first.ref}
            /\ mod.ctx_declared_funcs[first.ref] = first.sig
            /\ Cardinality(DOMAIN mod.funcs) =
                    Cardinality({n \in Names : decl_hist.first[n].ref # NoRef})

\* a name declared again with a signature that differs from the first one
C3_Witness ==
    /\ last.op = "declare_function"
    /\ decl_hist.first[last.a].ref = last.ret
    /\ decl_hist.first[last.a].sig.variant # last.b
    /\ Cardinality(DOMAIN mod.funcs) = 2

(***************************************************************************)
(* C1: for every Value v, users(v) is exactly the set of instructions that *)
(* have v among their operands, after any sequence of DFG mutators.        *)
(***************************************************************************)
C1_UsersConsistent ==
    \A v \in ValueIds(dfg) :
        users(dfg, v) = {i \in InsnIds(dfg) : v \in Range(insn_args(dfg, i))}

(***************************************************************************)
(* C7: make_imm_value is idempotent.  A call for an immediate that was     *)
(* interned before returns the handle the first call returned, and it      *)
(* leaves the value arena as it was, whatever ran in between.              *)
(***************************************************************************)
C7_MakeImmIdempotent ==
    [][(last'.op = "make_imm_value" /\ imm_hist[last'.a] # None)
        => (last'.ret = imm_hist[last'.a] /\ dfg'.values = dfg.values)]_vars

\* a repeated make_imm_value after instructions were made and rewritten
C7_Witness ==
    /\ last.op = "make_imm_value"
    /\ last.b # None
    /\ last.ret = last.b
    /\ dfg.insns # <<>>
    /\ Cardinality(DOMAIN dfg.immediates) = 2

(***************************************************************************)
(* FunctionBuilder and its SsaBuilder (Braun et al.).  The operators work  *)
(* on the record F = [dfg, layout, ssa, loc, err]: the function body, the  *)
(* SSA state, the cursor, and the panic a call ran into ("" when none).    *)
(***************************************************************************)
NoErr == ""

Ret(F, value) == [F |-> F, value |-> value]

\* Layout: the block holding insn, None when insn is detached
insn_block(lay, insn) ==
    IF \E b \in DOMAIN lay : insn \in Range(lay[b])
    THEN CHOOSE b \in DOMAIN lay : insn \in Range(lay[b])
    ELSE None

IndexOf(s, x) == CHOOSE k \in DOMAIN s : s[k] = x

InsertAfter(s, x, y) ==
    LET k == IndexOf(s, x)
    IN SubSeq(s, 1, k) \o <<y>> \o SubSeq(s, k + 1, Len(s))

Without(s, x) == SelectSeq(s, LAMBDA y : y # x)

\* Layout::remove_insn
remove_insn(lay, insn) == [b \in DOMAIN lay |-> Without(lay[b], insn)]

\* Layout::prepend_insn
prepend_insn(lay, insn, block) == [lay EXCEPT ![block] = <<insn>> \o @]

\* FuncCursor::block: the block the cursor is in, None at NoWhere
cursor_block(lay, l) ==
    CASE l.kind = "At" -> insn_block(lay, l.at)
      [] l.kind = "BlockBottom" -> l.at
      [] OTHER -> None

\* FuncCursor::insert_insn at the cursor: after the instruction of At, at
\* the end of the block of BlockBottom
cursor_insert(lay, l, insn) ==
    IF l.kind = "At"
    THEN [lay EXCEPT ![insn_block(lay, l.at)] = InsertAfter(@, l.at, insn)]
    ELSE [lay EXCEPT ![l.at] = Append(@, insn)]

has_result(data) == data.kind \in {"Unary", "Binary", "Phi"}

is_terminator(data) == is_branch(data) \/ data.kind = "Return"

\* a block that already ends with its terminator
Terminated(d, lay, block) ==
    /\ lay[block] # <<>>
    /\ is_terminator(d.insns[lay[block][Len(lay[block])]])

\* SsaBuilder::def_var
ssa_def_var(F, var, value, block) ==
    [F EXCEPT !.ssa.defs = (<<block, var>> :> value) @@ @]

\* SsaBuilder::append_pred
append_pred(s, block, pred) == [s EXCEPT !.preds[block] = Append(@, pred)]

is_sealed(s, block) == block \in s.sealed

\* an empty phi with its result value, at the top of block
prepend_phi(F, block) ==
    LET insn == Len(F.dfg.insns) + 1
        made == make_insn(F.dfg, InsnData("Phi", <<>>, <<>>, None))
    IN [F EXCEPT !.dfg = make_result_value(made, insn),
                 !.layout = prepend_insn(@, insn, block)]

SortedSeq(S) ==
    LET RECURSIVE Build(_)
        Build(T) == IF T = {} THEN <<>>
                    ELSE LET m == CHOOSE x \in T : \A y \in T : x <= y
                         IN <<m>> \o Build(T \ {m})
    IN Build(S)

RECURSIVE read_variable(_, _, _, _)
RECURSIVE add_phi_operands_from(_, _, _, _)
RECURSIVE try_remove_trivial_phi(_, _)
RECURSIVE recheck_phi_users(_, _)

\* The users of the phi's value are taken before the alias empties them, and
\* each one that is a phi is tried in turn.
try_remove_trivial_phi(F, phi) ==
    IF F.err # NoErr THEN Ret(F, None)
    ELSE
    LET phi_value == insn_result(F.dfg, phi)
        others == Range(insn_args(F.dfg, phi)) \ {phi_value}
    IN IF Cardinality(others) > 1 THEN Ret(F, phi_value)
       ELSE IF others = {} THEN Ret([F EXCEPT !.err = "undefined variable"], None)
       ELSE LET same == CHOOSE x \in others : TRUE
                phi_users == {i \in users(F.dfg, phi_value) \ {phi} :
                                 is_phi(F.dfg.insns[i])}
                removed == [F EXCEPT !.dfg = change_to_alias(@, phi_value, same),
                                      !.layout = remove_insn(@, phi)]
            IN Ret(recheck_phi_users(removed, SortedSeq(phi_users)), same)

recheck_phi_users(F, phis) ==
    IF phis = <<>> THEN F
    ELSE recheck_phi_users(try_remove_trivial_phi(F, Head(phis)).F, Tail(phis))

\* chain: the sealed single-predecessor blocks the current call came through
\* without writing a definition; coming back to one of them never returns
read_variable(F, var, block, chain) ==
    IF F.err # NoErr THEN Ret(F, None)
    ELSE IF <<block, var>> \in DOMAIN F.ssa.defs
    THEN Ret(F, F.ssa.defs[<<block, var>>])
    ELSE IF ~is_sealed(F.ssa, block)
    THEN LET phi == Len(F.dfg.insns) + 1
             value == Len(F.dfg.values) + 1
             made == [prepend_phi(F, block) EXCEPT
                         !.ssa.incomplete_phis[block] = Append(@, <<var, phi>>)]
         IN Ret(ssa_def_var(made, var, value, block), value)
    ELSE IF Len(F.ssa.preds[block]) = 1
    THEN IF block \in chain
         THEN Ret([F EXCEPT !.err = "stack overflow"], None)
         ELSE LET r == read_variable(F, var, F.ssa.preds[block][1],
                                     chain \cup {block})
              IN IF r.F.err # NoErr THEN r
                 ELSE Ret(ssa_def_var(r.F, var, r.value, block), r.value)
    ELSE LET phi == Len(F.dfg.insns) + 1
             value == Len(F.dfg.values) + 1
             made == ssa_def_var(prepend_phi(F, block), var, value, block)
         IN try_remove_trivial_phi(
                add_phi_operands_from(made, var, phi, made.ssa.preds[block]), phi)

add_phi_operands_from(F, var, phi, preds) ==
    IF preds = <<>> \/ F.err # NoErr THEN F
    ELSE LET r == read_variable(F, var, Head(preds), {})
         IN IF r.F.err # NoErr THEN r.F
            ELSE add_phi_operands_from(
                    [r.F EXCEPT !.dfg = append_phi_arg(@, phi, r.value, Head(preds))],
                    var, phi, Tail(preds))

\* one operand per predecessor of the phi's block, in the order of preds
add_phi_operands(F, var, phi) ==
    add_phi_operands_from(F, var, phi, F.ssa.preds[insn_block(F.layout, phi)])

\* SsaBuilder::use_var
ssa_use_var(F, var, block) == read_variable(F, var, block, {})

RECURSIVE complete_phis(_, _)
complete_phis(F, block) ==
    IF F.err # NoErr \/ F.ssa.incomplete_phis[block] = <<>> THEN F
    ELSE LET entry == Head(F.ssa.incomplete_phis[block])
             taken == [F EXCEPT !.ssa.incomplete_phis[block] = Tail(@)]
             filled == add_phi_operands(taken, entry[1], entry[2])
         IN complete_phis(try_remove_trivial_phi(filled, entry[2]).F, block)

\* SsaBuilder::seal_block
ssa_seal_block(F, block) ==
    IF F.err # NoErr THEN F
    ELSE IF is_sealed(F.ssa, block) THEN [F EXCEPT !.err = "already sealed"]
    ELSE LET done == complete_phis(F, block)
         IN IF done.err # NoErr THEN done
            ELSE [done EXCEPT !.ssa.sealed = @ \cup {block}]

RECURSIVE seal_blocks(_, _)
seal_blocks(F, blocks) ==
    IF blocks = <<>> \/ F.err # NoErr THEN F
    ELSE seal_blocks(IF is_sealed(F.ssa, Head(blocks)) THEN F
                     ELSE ssa_seal_block(F, Head(blocks)),
                     Tail(blocks))

\* SsaBuilder::seal_all: every unsealed block, in layout order
ssa_seal_all(F) == seal_blocks(F, [b \in DOMAIN F.layout |-> b])

(***************************************************************************)
(* FunctionBuilder.  F carries the cursor location too.                    *)
(***************************************************************************)
Builder ==
    [dfg |-> dfg, layout |-> layout, ssa |-> ssa, loc |-> loc, err |-> NoErr]

append_block(F) ==
    [F EXCEPT !.dfg = make_block(@), !.layout = Append(@, <<>>)]

switch_to_block(F, block) == [F EXCEPT !.loc = BlockBottom(block)]

\* insert_insn placing the instruction at the top of the cursor's block
insert_insn_AtTop(F, insn_data) ==
    IF F.err # NoErr THEN F
    ELSE IF F.loc.kind = "NoWhere" THEN [F EXCEPT !.err = "insertion at NoWhere"]
    ELSE LET insn == Len(F.dfg.insns) + 1
             made == make_insn(F.dfg, insn_data)
         IN [F EXCEPT !.dfg = IF has_result(insn_data)
                               THEN make_result_value(made, insn) ELSE made,
                      !.layout = prepend_insn(@, insn, cursor_block(@, F.loc)),
                      !.loc = At(insn)]

\* FunctionBuilder::insert_insn: insert at the cursor, make and attach the
\* result, move the cursor to the new instruction
insert_insn(F, insn_data) ==
    IF F.err # NoErr THEN F
    ELSE IF F.loc.kind = "NoWhere" THEN [F EXCEPT !.err = "insertion at NoWhere"]
    ELSE LET insn == Len(F.dfg.insns) + 1
             made == make_insn(F.dfg, insn_data)
         IN [F EXCEPT !.dfg = IF has_result(insn_data)
                               THEN make_result_value(made, insn) ELSE made,
                      !.layout = cursor_insert(@, F.loc, insn),
                      !.loc = At(insn)]

not(F, lhs) == insert_insn(F, InsnData("Unary", <<lhs>>, <<>>, None))

\* jump without its debug assertion
builder_jump_NoSealedCheck(F, dest) ==
    LET pred == cursor_block(F.layout, F.loc)
    IN IF pred = None THEN [F EXCEPT !.err = "unwrap on None"]
       ELSE insert_insn([F EXCEPT !.ssa = append_pred(@, dest, pred)],
                        jump(dest))

builder_jump(F, dest) ==
    IF is_sealed(F.ssa, dest) THEN [F EXCEPT !.err = "sealed destination"]
    ELSE LET pred == cursor_block(F.layout, F.loc)
         IN IF pred = None THEN [F EXCEPT !.err = "unwrap on None"]
            ELSE insert_insn([F EXCEPT !.ssa = append_pred(@, dest, pred)],
                             jump(dest))

RECURSIVE append_preds(_, _, _)
append_preds(s, dests, block) ==
    IF dests = <<>> THEN s
    ELSE append_preds(append_pred(s, Head(dests), block), Tail(dests), block)

\* table: a sequence of <<value, block>>
builder_br_table(F, cond, default, table) ==
    LET insn_data == InsnData("BrTable", <<cond>> \o Firsts(table),
                              Seconds(table), default)
        block == cursor_block(F.layout, F.loc)
    IN IF \E dest \in Range(iter_dests(insn_data)) : is_sealed(F.ssa, dest)
       THEN [F EXCEPT !.err = "sealed destination"]
       ELSE IF block = None THEN [F EXCEPT !.err = "unwrap on None"]
       ELSE insert_insn(
                [F EXCEPT !.ssa = append_preds(@, iter_dests(insn_data), block)],
                insn_data)

\* br recording the predecessor of its first destination only
builder_br_OnePred(F, cond, then, else_) ==
    IF is_sealed(F.ssa, then) \/ is_sealed(F.ssa, else_)
    THEN [F EXCEPT !.err = "sealed destination"]
    ELSE LET block == cursor_block(F.layout, F.loc)
         IN IF block = None THEN [F EXCEPT !.err = "unwrap on None"]
            ELSE insert_insn(
                    [F EXCEPT !.ssa = append_pred(@, then, block)],
                    InsnData("Branch", <<cond>>, <<then, else_>>, None))

builder_br(F, cond, then, else_) ==
    IF is_sealed(F.ssa, then) \/ is_sealed(F.ssa, else_)
    THEN [F EXCEPT !.err = "sealed destination"]
    ELSE LET block == cursor_block(F.layout, F.loc)
         IN IF block = None THEN [F EXCEPT !.err = "unwrap on None"]
            ELSE insert_insn(
                    [F EXCEPT !.ssa = append_pred(append_pred(@, then, block),
                                                  else_, block)],
                    InsnData("Branch", <<cond>>, <<then, else_>>, None))

ret(F) == insert_insn(F, InsnData("Return", <<>>, <<>>, None))

declare_var(F) == [F EXCEPT !.ssa.nvars = @ + 1]

\* use_var reading in the entry block, wherever the cursor is
use_var_AtEntry(F, var) ==
    LET block == cursor_block(F.layout, F.loc)
    IN IF block = None THEN Ret([F EXCEPT !.err = "unwrap on None"], None)
       ELSE ssa_use_var(F, var, 1)

\* returns the builder and the value
use_var(F, var) ==
    LET block == cursor_block(F.layout, F.loc)
    IN IF block = None THEN Ret([F EXCEPT !.err = "unwrap on None"], None)
       ELSE ssa_use_var(F, var, block)

def_var(F, var, value) ==
    LET block == cursor_block(F.layout, F.loc)
    IN IF block = None THEN [F EXCEPT !.err = "unwrap on None"]
       ELSE ssa_def_var(F, var, value, block)

\* seal_block marking the block sealed and leaving its phis as they are
seal_block_MarksOnly(F) ==
    LET block == cursor_block(F.layout, F.loc)
    IN IF block = None THEN [F EXCEPT !.err = "unwrap on None"]
       ELSE IF is_sealed(F.ssa, block) THEN [F EXCEPT !.err = "already sealed"]
       ELSE [F EXCEPT !.ssa.sealed = @ \cup {block},
                      !.ssa.incomplete_phis[block] = <<>>]

seal_block(F) ==
    LET block == cursor_block(F.layout, F.loc)
    IN IF block = None THEN [F EXCEPT !.err = "unwrap on None"]
       ELSE ssa_seal_block(F, block)

\* seal_all marking the blocks sealed and leaving their phis as they are
seal_all_MarksOnly(F) == [F EXCEPT !.ssa.sealed = DOMAIN F.layout]

seal_all(F) == ssa_seal_all(F)

\* build without the debug assertions
build_Unchecked(F) == F

build(F) ==
    IF \E block \in DOMAIN F.layout : ~is_sealed(F.ssa, block)
    THEN [F EXCEPT !.err = "all blocks must be sealed"]
    ELSE F

(***************************************************************************)
(* A frontend driving one FunctionBuilder.  It declares its variables,     *)
(* interns its immediates (in increasing order) and appends its blocks     *)
(* before it switches to the first block.  It passes the immediates and    *)
(* the value of its latest use_var in the block it is in, and it emits     *)
(* nothing into a block that already has its terminator.                   *)
(***************************************************************************)
Vars == 1..ssa.nvars

BuilderImms == Imms

FrontendValues == Range(dfg.immediates) \cup ({held} \ {None})

Live == ~panicked /\ last.op # "build"

\* the room left in the builder's instruction arena, a phi counting for one
BuilderRoom ==
    MaxBuilderSize
        - SumSizes([i \in DOMAIN dfg.insns |->
                        IF is_phi(dfg.insns[i])
                        THEN InsnData("Phi", <<>>, <<>>, None) ELSE dfg.insns[i]])

CanEmit(size) ==
    /\ Live
    /\ size <= BuilderRoom
    /\ cursor_block(layout, loc) # None =>
            ~Terminated(dfg, layout, cursor_block(layout, loc))

InitBuilder ==
    /\ IdleMod
    /\ IdleDfg
    /\ IdleBld
    /\ last = Op("new", 0, 0, 0)
    /\ panicked = FALSE

\* the builder after a call: the state moves on, or the call panicked, the
\* unwinding dropped the builder and last.op is the panic's message
Step(F, op, h, em) ==
    IF F.err # NoErr
    THEN /\ panicked' = TRUE
         /\ last' = Op(F.err, 0, 0, 0)
         /\ dfg' = DataFlowGraph_new
         /\ layout' = <<>>
         /\ ssa' = SsaBuilder_new
         /\ loc' = NoWhere
         /\ held' = None
         /\ emitted' = <<>>
    ELSE /\ dfg' = F.dfg
         /\ layout' = F.layout
         /\ ssa' = F.ssa
         /\ loc' = F.loc
         /\ held' = h
         /\ emitted' = em
         /\ last' = op
         /\ UNCHANGED panicked

\* the history of emissions after the frontend's instruction insn
Emitted(insn) ==
    [emitted EXCEPT ![cursor_block(layout, loc)] = Append(@, insn)]

AppendBlock ==
    /\ Live
    /\ loc = NoWhere
    /\ Len(layout) < MaxBuilderBlocks
    /\ Step(append_block(Builder), Op("append_block", 0, 0, 0),
            held, Append(emitted, <<>>))
    /\ UNCHANGED <<imm_hist, modVars>>

SwitchToBlock ==
    /\ Live
    /\ \E block \in DOMAIN layout :
        /\ cursor_block(layout, loc) # block
        /\ Step(switch_to_block(Builder, block),
                Op("switch_to_block", block, 0, 0), None, emitted)
    /\ UNCHANGED <<imm_hist, modVars>>

BuilderMakeImmValue ==
    /\ Live
    /\ layout = <<>>
    /\ \E x \in BuilderImms :
        LET r == make_imm_value(dfg, x)
        IN /\ x = Cardinality(DOMAIN dfg.immediates)
           /\ Step([Builder EXCEPT !.dfg = r.dfg],
                   Op("make_imm_value", 0, 0, 0), held, emitted)
           /\ imm_hist' = [imm_hist EXCEPT ![x] = IF @ = None THEN r.value ELSE @]
    /\ UNCHANGED modVars

DeclareVar ==
    /\ Live
    /\ dfg.values = <<>> /\ layout = <<>>
    /\ ssa.nvars < MaxVars
    /\ Step(declare_var(Builder), Op("declare_var", 0, 0, 0), held, emitted)
    /\ UNCHANGED <<imm_hist, modVars>>

DefVar ==
    /\ Live
    /\ \E var \in Vars, value \in FrontendValues :
        Step(def_var(Builder, var, value), Op("def_var", var, value, 0), held, emitted)
    /\ UNCHANGED <<imm_hist, modVars>>

UseVar ==
    /\ Live
    /\ 1 <= BuilderRoom
    /\ \E var \in Vars :
        LET r == use_var(Builder, var)
        IN Step(r.F, Op("use_var", var, 0, r.value), r.value, emitted)
    /\ UNCHANGED <<imm_hist, modVars>>

EmitNot ==
    /\ CanEmit(2)
    /\ \E lhs \in FrontendValues :
        Step(not(Builder, lhs), Op("not", 0, 0, 0),
             held, Emitted(Len(dfg.insns) + 1))
    /\ UNCHANGED <<imm_hist, modVars>>

Jump ==
    /\ CanEmit(2)
    /\ \E dest \in DOMAIN layout :
        Step(builder_jump(Builder, dest), Op("jump", 0, 0, 0),
             held, Emitted(Len(dfg.insns) + 1))
    /\ UNCHANGED <<imm_hist, modVars>>

Br ==
    /\ CanEmit(4)
    /\ \E cond \in Range(dfg.immediates), then \in DOMAIN layout, else_ \in DOMAIN layout :
        Step(builder_br(Builder, cond, then, else_), Op("br", 0, 0, 0),
             held, Emitted(Len(dfg.insns) + 1))
    /\ UNCHANGED <<imm_hist, modVars>>

BrTable ==
    /\ \E cond \in Range(dfg.immediates), default \in {None} \cup DOMAIN layout :
        \E table \in SeqsUpTo({cond} \X DOMAIN layout, 1) :
            /\ CanEmit(2 + 2 * Len(table))
            /\ Step(builder_br_table(Builder, cond, default, table),
                 Op("br_table", 0, 0, 0), held, Emitted(Len(dfg.insns) + 1))
    /\ UNCHANGED <<imm_hist, modVars>>

Return ==
    /\ CanEmit(1)
    /\ Step(ret(Builder), Op("ret", 0, 0, 0), held, Emitted(Len(dfg.insns) + 1))
    /\ UNCHANGED <<imm_hist, modVars>>

SealBlock ==
    /\ Live
    /\ Step(seal_block(Builder), Op("seal_block", 0, 0, 0), held, emitted)
    /\ UNCHANGED <<imm_hist, modVars>>

SealAll ==
    /\ Live
    /\ Step(seal_all(Builder), Op("seal_all", 0, 0, 0), held, emitted)
    /\ UNCHANGED <<imm_hist, modVars>>

Build ==
    /\ Live
    /\ Step(build(Builder), Op("build", 0, 0, 0), held, emitted)
    /\ UNCHANGED <<imm_hist, modVars>>

\* the frontend lays out control flow only
NextCfg ==
    \/ AppendBlock
    \/ SwitchToBlock
    \/ BuilderMakeImmValue
    \/ EmitNot
    \/ Jump
    \/ Br
    \/ BrTable
    \/ Return
    \/ SealBlock
    \/ SealAll
    \/ Build

SpecCfg == InitBuilder /\ [][NextCfg]_vars

\* the frontend reads and writes variables; its terminators are jump and br
NextSsa ==
    \/ AppendBlock
    \/ SwitchToBlock
    \/ BuilderMakeImmValue
    \/ DeclareVar
    \/ DefVar
    \/ UseVar
    \/ EmitNot
    \/ Jump
    \/ Br
    \/ SealBlock
    \/ SealAll

SpecSsa == InitBuilder /\ [][NextSsa]_vars

(***************************************************************************)
(* The control-flow graph of the function under construction.              *)
(***************************************************************************)
Count(s, x) == Cardinality({k \in DOMAIN s : s[k] = x})

\* the destinations of block's terminator, <<>> while it has none
terminator_dests(d, lay, block) ==
    IF Terminated(d, lay, block)
    THEN iter_dests(d.insns[lay[block][Len(lay[block])]])
    ELSE <<>>

AttachedPhis(block) == {i \in Range(layout[block]) : is_phi(dfg.insns[i])}

AfterSealAll == last.op = "seal_all" /\ ~panicked

C9_SealedIsFinal ==
    [][~panicked' =>
        /\ \A b \in ssa.sealed :
                b \in ssa'.sealed /\ ssa'.preds[b] = ssa.preds[b]
        /\ last'.op \in {"jump", "br", "br_table"} =>
                \A d \in Range(iter_dests(dfg'.insns[Len(dfg'.insns)])) :
                    d \notin ssa.sealed
        /\ last'.op = "seal_block" =>
                cursor_block(layout, loc) \notin ssa.sealed]_vars

\* a terminator was refused because a destination is sealed
C9_Witness == panicked /\ last.op = "sealed destination"

(* C10: the instructions emitted through the builder appear in their       *)
(* block's layout in exactly the order of emission; switch_to_block(b)     *)
(* leaves the location at BlockBottom(b) and every insertion leaves it at  *)
(* At(the new instruction)                                                 *)
C10_EmissionOrder ==
    /\ \A b \in DOMAIN layout :
            SelectSeq(layout[b], LAMBDA i : i \in Range(emitted[b])) = emitted[b]
    /\ last.op = "switch_to_block" => loc = BlockBottom(last.a)
    /\ last.op \in {"not", "jump", "br", "br_table", "ret"} =>
            loc = At(Len(dfg.insns))

\* a block got an instruction, another block got one, then the first again
C10_Witness ==
    \E b \in DOMAIN layout :
        /\ Len(emitted[b]) = 2
        /\ emitted[b][2] > emitted[b][1] + 1
        /\ loc = At(emitted[b][2])

(***************************************************************************)
(* Dominance in the CFG whose entry is the first block of the layout.      *)
(***************************************************************************)
Entry == 1

Succs(block) == Range(terminator_dests(dfg, layout, block))

\* the blocks reachable from the blocks of S without entering without
RECURSIVE ReachFrom(_, _)
ReachFrom(S, without) ==
    LET N == S \cup {d \in DOMAIN layout \ {without} :
                        \E b \in S : d \in Succs(b)}
    IN IF N = S THEN S ELSE ReachFrom(N, without)

Reachable(block) == block \in ReachFrom({Entry}, None)

\* every path from the entry to block n goes through block d
Dominates(d, n) == d = n \/ n \notin ReachFrom({Entry} \ {d}, d)

is_imm(value) == dfg.values[value].kind = "Immediate"

\* the definition of value dominates instruction insn of block
DefDominatesInsn(value, insn, block) ==
    \/ is_imm(value)
    \/ LET def == value_insn(dfg, value)
           def_block == insn_block(layout, def)
       IN /\ def_block # None
          /\ IF def_block = block
             THEN IndexOf(layout[block], def) < IndexOf(layout[block], insn)
             ELSE Dominates(def_block, block)

\* the definition of value dominates the end of block pred
DefDominatesEnd(value, pred) ==
    \/ is_imm(value)
    \/ LET def_block == insn_block(layout, value_insn(dfg, value))
       IN def_block # None /\ Dominates(def_block, pred)

is_trivial(d, phi) ==
    Cardinality(Range(insn_args(d, phi)) \ {insn_result(d, phi)}) <= 1

C5_DefsDominateUses ==
    AfterSealAll =>
        \A b \in DOMAIN layout : \A i \in Range(layout[b]) :
            Reachable(b) =>
                IF is_phi(dfg.insns[i])
                THEN \A k \in DOMAIN dfg.insns[i].args :
                        DefDominatesEnd(dfg.insns[i].args[k], dfg.insns[i].blocks[k])
                ELSE \A v \in Range(dfg.insns[i].args) : DefDominatesInsn(v, i, b)

(* C6: after seal_all every phi that use_var created and that remains in   *)
(* a block B has one entry per registered predecessor of B, in the order   *)
(* in which the predecessors were registered                               *)
C6_PhiEntriesFollowPreds ==
    AfterSealAll =>
        \A b \in DOMAIN layout : \A phi \in AttachedPhis(b) :
            dfg.insns[phi].blocks = ssa.preds[b]

\* a phi with entries for two different predecessors remains
C6_Witness ==
    /\ AfterSealAll
    /\ \E b \in DOMAIN layout : \E phi \in AttachedPhis(b) :
        /\ Len(dfg.insns[phi].blocks) = 2
        /\ dfg.insns[phi].blocks[1] # dfg.insns[phi].blocks[2]

(***************************************************************************)
(* The rewrite operations of the data-flow graph, one call at a time.      *)
(* last' names the call a step made, dfg and dfg' are the graph before     *)
(* and after it.                                                           *)
(***************************************************************************)
Dests(d, insn) == Range(iter_dests(d.insns[insn]))

\* a remove_branch_dest(last'.a, last'.b) that returned, on a Branch or a
\* BrTable that had the block among its destinations
RemovedDest ==
    /\ last'.op = "remove_branch_dest"
    /\ ~panicked'
    /\ dfg.insns[last'.a].kind \in {"Branch", "BrTable"}
    /\ last'.b \in Dests(dfg, last'.a)

(* C11: after remove_branch_dest(insn, dest) returns, for a Branch or a    *)
(* BrTable that had dest among its destinations, dest is no longer a       *)
(* destination of insn                                                     *)
C11_DestRemoved ==
    [][RemovedDest => last'.b \notin Dests(dfg', last'.a)]_vars

(***************************************************************************)
(* One terminator under a CFG-editing client: a branch instruction over    *)
(* interned immediates, then remove_branch_dest calls on it.               *)
(***************************************************************************)
BranchInputs(d) ==
    {jump(b) : b \in BlockIds}
    \cup {InsnData("Branch", <<c>>, <<b1, b2>>, None) :
            c \in ValueIds(d), b1 \in BlockIds, b2 \in BlockIds}
    \cup {InsnData("BrTable", <<c>> \o Firsts(es), Seconds(es), df) :
            c \in ValueIds(d), es \in Entries(d, MaxCases),
            df \in {None} \cup BlockIds}

MakeBranch ==
    /\ ~panicked
    /\ dfg.insns = <<>>
    /\ \E data \in BranchInputs(dfg) :
        /\ dfg' = make_insn(dfg, data)
        /\ last' = Op("make_insn", 1, 0, 1)
    /\ UNCHANGED <<panicked, imm_hist, notDfg>>

NextBranch ==
    \/ MakeImmValue
    \/ MakeBranch
    \/ RemoveBranchDest

SpecBranch == InitDfg /\ [][NextBranch]_vars

\* the destinations of data with every occurrence of dest taken out
RemainingDests(data, dest) == SelectSeq(iter_dests(data), LAMBDA b : b # dest)

NoUserEdges(d, insn) == \A p \in d.users : p[2] # insn

(* C12: remove_branch_dest on a two-way Branch leaves a Jump to the other  *)
(* destination and drops the condition's user edge; on a BrTable that is   *)
(* left with exactly one destination it leaves a Jump to that destination  *)
(* and drops the user edges of all its operands                            *)
C12_ReductionLaw ==
    [][RemovedDest =>
        LET this == dfg.insns[last'.a]
            remain == RemainingDests(this, last'.b)
        IN /\ this.kind = "Branch" =>
                /\ dfg'.insns[last'.a] =
                      jump(IF this.blocks[1] = last'.b THEN this.blocks[2]
                           ELSE this.blocks[1])
                /\ <<this.args[1], last'.a>> \notin dfg'.users
           /\ (this.kind = "BrTable" /\ Len(remain) = 1) =>
                /\ dfg'.insns[last'.a] = jump(remain[1])
                /\ NoUserEdges(dfg', last'.a)]_vars

OtherInsnsUnchanged(insn) ==
    /\ DOMAIN dfg'.insns = DOMAIN dfg.insns
    /\ \A j \in DOMAIN dfg.insns : j # insn => dfg'.insns[j] = dfg.insns[j]

(* C13: replace_insn_arg(insn, new_arg, idx) returns the operand that was  *)
(* at idx, puts new_arg there and leaves every other operand as it was,    *)
(* makes insn a user of new_arg, and takes insn out of users(old_arg)      *)
(* exactly when old_arg occurs at no operand position of insn any more     *)
C13_ReplaceInsnArg ==
    [][last'.op = "replace_insn_arg" =>
        LET insn == last'.a
            new_arg == last'.b
            old_arg == last'.ret
            args == dfg.insns[insn].args
            args_ == dfg'.insns[insn].args
        IN /\ \E idx \in DOMAIN args :
                /\ args[idx] = old_arg
                /\ args_ = [args EXCEPT ![idx] = new_arg]
           /\ dfg'.insns[insn] = [dfg.insns[insn] EXCEPT !.args = args_]
           /\ OtherInsnsUnchanged(insn)
           /\ <<new_arg, insn>> \in dfg'.users
           /\ IF old_arg \in Range(args_)
              THEN <<old_arg, insn>> \in dfg'.users
                      <=> (<<old_arg, insn>> \in dfg.users \/ old_arg = new_arg)
              ELSE <<old_arg, insn>> \notin dfg'.users
           /\ dfg'.users \ {<<new_arg, insn>>, <<old_arg, insn>>}
                = dfg.users \ {<<new_arg, insn>>, <<old_arg, insn>>}]_vars

\* one of two occurrences of a value was replaced by another value
C13_Witness ==
    /\ last.op = "replace_insn_arg"
    /\ last.ret # last.b
    /\ last.ret \in Range(insn_args(dfg, last.a))
    /\ last.a \in users(dfg, last.ret)

Aliased ==
    /\ last'.op = "change_to_alias"
    /\ last'.a # last'.b

(* C14: after change_to_alias(old, alias) with old different from alias no *)
(* instruction has old as an operand, users(old) is empty, users(alias) is *)
(* its former set united with the former users(old), and every operand     *)
(* that was not old is unchanged                                           *)
C14_ChangeToAlias ==
    [][Aliased =>
        LET old == last'.a
            alias == last'.b
        IN /\ \A i \in DOMAIN dfg'.insns : old \notin Range(dfg'.insns[i].args)
           /\ users(dfg', old) = {}
           /\ users(dfg', alias) = users(dfg, alias) \cup users(dfg, old)
           /\ DOMAIN dfg'.insns = DOMAIN dfg.insns
           /\ \A i \in DOMAIN dfg.insns :
                /\ DOMAIN dfg'.insns[i].args = DOMAIN dfg.insns[i].args
                /\ \A k \in DOMAIN dfg.insns[i].args :
                    dfg.insns[i].args[k] # old
                        => dfg'.insns[i].args[k] = dfg.insns[i].args[k]]_vars

(* C15: append_phi_arg(phi, v, b) adds (v, b) as the last entry of phi and *)
(* makes phi a user of v; remove_phi_arg(phi, from) removes the entry      *)
(* whose block is from and returns its value, and afterwards users(value)  *)
(* contains phi exactly when value is still an operand of phi              *)
C15_PhiArgs ==
    [][/\ last'.op = "append_phi_arg" =>
            LET phi == last'.a
                v == last'.b
            IN /\ dfg'.insns[phi].args = Append(dfg.insns[phi].args, v)
               /\ \E b \in BlockIds :
                    dfg'.insns[phi].blocks = Append(dfg.insns[phi].blocks, b)
               /\ phi \in users(dfg', v)
       /\ (last'.op = "remove_phi_arg" /\ ~panicked') =>
            LET phi == last'.a
                from == last'.b
                value == last'.ret
            IN /\ \E k \in DOMAIN dfg.insns[phi].blocks :
                    /\ dfg.insns[phi].blocks[k] = from
                    /\ dfg.insns[phi].args[k] = value
                    /\ dfg'.insns[phi].blocks = RemoveAt(dfg.insns[phi].blocks, k)
                    /\ dfg'.insns[phi].args = RemoveAt(dfg.insns[phi].args, k)
               /\ phi \in users(dfg', value)
                    <=> value \in Range(insn_args(dfg', phi))]_vars

(***************************************************************************)
(* FuncStore::par_for_each beside modify, view and insert.  The store is a *)
(* DashMap: every key lives in one shard and every shard has its own       *)
(* reader-writer lock.  par_iter_mut hands the shards to the pool's        *)
(* workers; a worker write-locks its shard, passes the shard's entries to  *)
(* f one after the other and unlocks.  get_mut (modify) write-locks the    *)
(* key's shard, view read-locks it, both until the closure returns.        *)
(***************************************************************************)
ParSig == [name |-> "f", variant |-> 1]

shard_write_locked(ws, cs, so, s) ==
    \/ \E w \in DOMAIN ws : ws[w].pc \in {"locked", "visiting"} /\ ws[w].shard = s
    \/ \E c \in DOMAIN cs : cs[c].pc = "modify" /\ so[cs[c].func_ref] = s

shard_read_locked(cs, so, s) ==
    \E c \in DOMAIN cs : cs[c].pc = "view" /\ so[cs[c].func_ref] = s

\* a write lock that does not wait for the shard's readers
try_write_IgnoresReaders(ws, cs, so, s) == ~shard_write_locked(ws, cs, so, s)

\* RwLock::write can be taken: nobody holds the shard
try_write(ws, cs, so, s) ==
    ~shard_write_locked(ws, cs, so, s) /\ ~shard_read_locked(cs, so, s)

\* RwLock::read can be taken: no writer holds the shard
try_read(ws, cs, so, s) == ~shard_write_locked(ws, cs, so, s)

\* FuncStore::insert from some thread; the key's hash picks the shard
StoreInsert ==
    /\ Cardinality(DOMAIN mod.funcs) < MaxFuncs
    /\ \E s \in Shards :
        /\ try_write(workers, clients, shard_of, s)
        /\ LET ins == FuncStore_insert(mod, Function_new(ParSig))
           IN /\ mod' = ins.mod
              /\ shard_of' = (ins.func_ref :> s) @@ shard_of
              /\ visits' = (ins.func_ref :> 0) @@ visits
    /\ UNCHANGED <<par, workers, clients, threads, decl_hist, last, dfg, imm_hist,
                   panicked, bldVars>>

parFrame == <<mod, shard_of, threads, decl_hist, last, dfg, imm_hist, panicked, bldVars>>

\* par_for_each is called: par_iter_mut over the shards
ParForEach ==
    /\ par.phase = "idle"
    /\ par' = [phase |-> "running", pending |-> Shards, at_start |-> DOMAIN mod.funcs]
    /\ UNCHANGED <<workers, clients, visits, parFrame>>

\* a worker takes a shard and write-locks it
WorkerLock(w) ==
    /\ par.phase = "running"
    /\ workers[w].pc = "idle"
    /\ \E s \in par.pending :
        /\ try_write(workers, clients, shard_of, s)
        /\ par' = [par EXCEPT !.pending = @ \ {s}]
        /\ workers' = [workers EXCEPT ![w] =
                [pc |-> "locked", shard |-> s,
                 todo |-> {r \in DOMAIN shard_of : shard_of[r] = s},
                 func_ref |-> NoRef]]
    /\ UNCHANGED <<clients, visits, parFrame>>

\* f(entry.value_mut()) begins on the shard's next entry
WorkerEnter(w) ==
    /\ workers[w].pc = "locked"
    /\ \E r \in workers[w].todo :
        workers' = [workers EXCEPT ![w].pc = "visiting", ![w].func_ref = r,
                                   ![w].todo = @ \ {r}]
    /\ UNCHANGED <<par, clients, visits, parFrame>>

\* f returns
WorkerLeave(w) ==
    /\ workers[w].pc = "visiting"
    /\ visits' = [visits EXCEPT ![workers[w].func_ref] = @ + 1]
    /\ workers' = [workers EXCEPT ![w].pc = "locked", ![w].func_ref = NoRef]
    /\ UNCHANGED <<par, clients, parFrame>>

\* the shard's entries are done: the guard is dropped
WorkerUnlock(w) ==
    /\ workers[w].pc = "locked"
    /\ workers[w].todo = {}
    /\ workers' = [workers EXCEPT ![w] = IdleWorker]
    /\ UNCHANGED <<par, clients, visits, parFrame>>

\* par_for_each returns
ParDone ==
    /\ par.phase = "running"
    /\ par.pending = {}
    /\ \A w \in Workers : workers[w].pc = "idle"
    /\ par' = [par EXCEPT !.phase = "done"]
    /\ UNCHANGED <<workers, clients, visits, parFrame>>

\* modify(func_ref, f): get_mut, then f runs on the entry
ModifyBegin(c) ==
    /\ clients[c].pc = "idle"
    /\ \E r \in DOMAIN mod.funcs :
        /\ try_write(workers, clients, shard_of, shard_of[r])
        /\ clients' = [clients EXCEPT ![c] = [pc |-> "modify", func_ref |-> r]]
    /\ UNCHANGED <<par, workers, visits, parFrame>>

\* view(func_ref, f): the shard is read-locked while f runs
ViewBegin(c) ==
    /\ clients[c].pc = "idle"
    /\ \E r \in DOMAIN mod.funcs :
        /\ try_read(workers, clients, shard_of, shard_of[r])
        /\ clients' = [clients EXCEPT ![c] = [pc |-> "view", func_ref |-> r]]
    /\ UNCHANGED <<par, workers, visits, parFrame>>

\* the closure of modify or view returns and the lock is released
ClientEnd(c) ==
    /\ clients[c].pc \in {"modify", "view"}
    /\ clients' = [clients EXCEPT ![c] = IdleClient]
    /\ UNCHANGED <<par, workers, visits, parFrame>>

NextPar ==
    \/ StoreInsert
    \/ ParForEach
    \/ ParDone
    \/ \E w \in Workers :
        \/ WorkerLock(w)
        \/ WorkerEnter(w)
        \/ WorkerLeave(w)
        \/ WorkerUnlock(w)
    \/ \E c \in Clients :
        \/ ModifyBegin(c)
        \/ ViewBegin(c)
        \/ ClientEnd(c)

SpecPar == InitMod /\ [][NextPar]_vars

Visiting(r) == {w \in Workers : workers[w].pc = "visiting" /\ workers[w].func_ref = r}

Inside(r) == {c \in Clients : clients[c].pc \in {"modify", "view"} /\ clients[c].func_ref = r}

(* C16: par_for_each gives each worker exclusive mutable access to one     *)
(* function: never are two workers in the same function, never is a worker *)
(* in a function while a modify or view of that FuncRef is running, no     *)
(* function is passed to f twice, and when the call returns every function *)
(* that was stored when it began has been visited exactly once             *)
C16_ExclusiveVisits ==
    \A r \in DOMAIN mod.funcs :
        /\ Cardinality(Visiting(r)) <= 1
        /\ Visiting(r) # {} => Inside(r) = {}
        /\ visits[r] <= 1
        /\ (par.phase = "done" /\ r \in par.at_start) => visits[r] = 1

\* a worker is in one function while a modify or view of another one runs,
\* and a third function has been visited already
C16_Witness ==
    \E r1, r2, r3 \in DOMAIN mod.funcs :
        /\ r1 # r2 /\ r2 # r3 /\ r1 # r3
        /\ Visiting(r1) # {}
        /\ Inside(r2) # {}
        /\ visits[r3] = 1

\* the step is a call of build(): it returned, or its assertion failed
BuildCalled == last'.op \in {"build", "all blocks must be sealed"}

(* C17: with debug assertions on, build() returns the function only when   *)
(* every reachable block is sealed, it fails its assertion when some block *)
(* of the layout is unsealed, and it succeeds when it is called right      *)
(* after seal_all()                                                        *)
C17_BuildNeedsSealed ==
    [][BuildCalled =>
        /\ last'.op = "build" =>
            /\ ~panicked'
            /\ \A block \in DOMAIN layout : Reachable(block) => is_sealed(ssa, block)
        /\ (\E block \in DOMAIN layout : ~is_sealed(ssa, block)) =>
            /\ panicked'
            /\ last'.op = "all blocks must be sealed"
        /\ AfterSealAll => (last'.op = "build" /\ ~panicked')]_vars

\* build() has returned a function of two blocks, the entry with its terminator
C17_Witness ==
    /\ last.op = "build"
    /\ ~panicked
    /\ Len(layout) = 2
    /\ Terminated(dfg, layout, Entry)
    /\ ssa.sealed = DOMAIN layout

(***************************************************************************)
(* A frontend that seals nothing while it emits: it fills its blocks one   *)
(* after the other, in append order, and then has every block sealed, in   *)
(* some order.                                                             *)
(***************************************************************************)
SealRoom == BuilderRoom - MaxBuilderSize + MaxSealSize

Filling == Live /\ ssa.sealed = {}

\* the cursor moves to the first block, or on to the next one
FillNextBlock ==
    /\ Filling
    /\ Len(layout) = MaxBuilderBlocks
    /\ LET block == IF loc = NoWhere THEN Entry ELSE cursor_block(layout, loc) + 1
       IN /\ block \in DOMAIN layout
          /\ Step(switch_to_block(Builder, block),
                  Op("switch_to_block", block, 0, 0), None, emitted)
    /\ UNCHANGED <<imm_hist, modVars>>

FillDefVar ==
    /\ Filling
    /\ \E var \in Vars, value \in Range(dfg.immediates) :
        Step(def_var(Builder, var, value), Op("def_var", var, value, 0), held, emitted)
    /\ UNCHANGED <<imm_hist, modVars>>

FillUseVar ==
    /\ Filling
    /\ 1 <= SealRoom
    /\ \E var \in Vars :
        LET r == use_var(Builder, var)
        IN Step(r.F, Op("use_var", var, 0, r.value), r.value, emitted)
    /\ UNCHANGED <<imm_hist, modVars>>

FillNot ==
    /\ Filling
    /\ 2 <= SealRoom
    /\ held # None
    /\ Step(not(Builder, held), Op("not", 0, 0, 0), held, Emitted(Len(dfg.insns) + 1))
    /\ UNCHANGED <<imm_hist, modVars>>

FillJump ==
    /\ Filling
    /\ 2 <= SealRoom
    /\ \E dest \in DOMAIN layout :
        Step(builder_jump(Builder, dest), Op("jump", 0, 0, 0),
             held, Emitted(Len(dfg.insns) + 1))
    /\ UNCHANGED <<imm_hist, modVars>>

Perms(S) == {p \in [1..Cardinality(S) -> S] : Range(p) = S}

Unsealed == {block \in DOMAIN layout : ~is_sealed(ssa, block)}

\* every unsealed block is sealed, in the order chosen
SealInOrder ==
    /\ Live
    /\ Unsealed # {}
    /\ \E order \in Perms(Unsealed) :
        Step(seal_blocks(Builder, order), Op("seal_blocks", 0, 0, 0), held, emitted)
    /\ UNCHANGED <<imm_hist, modVars>>

NextSeal ==
    \/ AppendBlock
    \/ BuilderMakeImmValue
    \/ DeclareVar
    \/ FillNextBlock
    \/ FillDefVar
    \/ FillUseVar
    \/ FillNot
    \/ FillJump
    \/ SealInOrder

SpecSeal == InitBuilder /\ [][NextSeal]_vars

\* what a value is, apart from its handle: an immediate, the result of an
\* instruction at some place of the layout, or the result of a detached one
ValueShape(F, value) ==
    LET data == F.dfg.values[value]
    IN IF data.kind = "Immediate" THEN <<"imm", data.imm>>
       ELSE IF insn_block(F.layout, data.insn) = None THEN <<"detached">>
       ELSE <<"insn", insn_block(F.layout, data.insn),
              IndexOf(F.layout[insn_block(F.layout, data.insn)], data.insn)>>

\* the function after sealing: per block its instructions in order, each
\* with its operands and destinations; every panic is the same outcome
SealOutcome(F) ==
    IF F.err # NoErr THEN <<"panic">>
    ELSE [block \in DOMAIN F.layout |->
            [k \in DOMAIN F.layout[block] |->
                LET data == F.dfg.insns[F.layout[block][k]]
                IN [kind |-> data.kind,
                    args |-> [j \in DOMAIN data.args |-> ValueShape(F, data.args[j])],
                    blocks |-> data.blocks]]]

(* C18: sealing is order-independent: for a fixed CFG and a fixed sequence *)
(* of def_var and use_var calls, sealing the unsealed blocks in any order  *)
(* gives the same phi instructions with the same operands, and the same    *)
(* value as the operand of every use                                       *)
C18_SealOrderIndependent ==
    [][last'.op = "seal_blocks" =>
        \A order \in Perms(Unsealed) :
            SealOutcome(seal_blocks(Builder, order))
                = IF panicked' THEN <<"panic">> ELSE SealOutcome(Builder')]_vars

\* the values whose defining-instruction field names insn
ResultsOf(d, insn) ==
    {value \in ValueIds(d) : d.values[value].kind = "Insn" /\ d.values[value].insn = insn}

(* C19: an instruction has at most one result Value over its whole life:   *)
(* attach_result on an instruction that has a result fails its debug       *)
(* assertion, the result's defining-instruction field names the            *)
(* instruction, a result once attached stays, and replace_insn leaves the  *)
(* result's handle and its value data as they were                         *)
C19_OneResult ==
    [][/\ (last'.op = "attach_result" /\ insn_result(dfg, last'.a) # None) => panicked'
       /\ ~panicked' =>
            \A insn \in InsnIds(dfg') :
                /\ Cardinality(ResultsOf(dfg', insn)) <= 1
                /\ insn_result(dfg', insn) # None
                    => insn_result(dfg', insn) \in ResultsOf(dfg', insn)
       /\ \A insn \in InsnIds(dfg) :
            insn_result(dfg, insn) # None =>
                /\ insn_result(dfg', insn) = insn_result(dfg, insn)
                /\ dfg'.values[insn_result(dfg, insn)] = dfg.values[insn_result(dfg, insn)]
       /\ last'.op = "replace_insn" =>
            /\ dfg'.insn_results = dfg.insn_results
            /\ dfg'.values = dfg.values]_vars

\* replace_insn has run on an instruction that has a result
C19_Witness ==
    /\ last.op = "replace_insn"
    /\ insn_result(dfg, last.a) # None

(* C20: use_var(var) in a block returns the block's own current definition *)
(* when there is one (def_var(x, v) followed by use_var(x) in the same     *)
(* block returns v); in a sealed block with exactly one predecessor and no *)
(* definition of its own it returns the predecessor's value, creates no    *)
(* phi in the block and memoizes the value in defs                         *)
C20_UseVar ==
    [][LET block == cursor_block(layout, loc)
           var == last'.a
           key == <<block, var>>
       IN /\ last'.op = "def_var" => ssa'.defs[key] = last'.b
          /\ (last'.op = "use_var" /\ key \in DOMAIN ssa.defs) =>
                /\ last'.ret = ssa.defs[key]
                /\ UNCHANGED <<dfg, layout, ssa>>
          /\ (/\ last'.op = "use_var"
              /\ key \notin DOMAIN ssa.defs
              /\ is_sealed(ssa, block)
              /\ Len(ssa.preds[block]) = 1) =>
                LET pred == ssa.preds[block][1]
                IN /\ last'.ret = ssa_use_var(Builder, var, pred).value
                   /\ <<pred, var>> \in DOMAIN ssa.defs =>
                        /\ last'.ret = ssa.defs[<<pred, var>>]
                        /\ UNCHANGED <<dfg, layout>>
                   /\ layout'[block] = layout[block]
                   /\ key \in DOMAIN ssa'.defs
                   /\ ssa'.defs[key] = last'.ret]_vars

\* use_var has returned, in a sealed block with one predecessor and no phi,
\* the value the predecessor defines, and defs holds it for the block
C20_Witness ==
    /\ last.op = "use_var"
    /\ LET block == cursor_block(layout, loc)
       IN /\ is_sealed(ssa, block)
          /\ Len(ssa.preds[block]) = 1
          /\ ssa.preds[block][1] # block
          /\ AttachedPhis(block) = {}
          /\ <<ssa.preds[block][1], last.a>> \in DOMAIN ssa.defs
          /\ last.ret = ssa.defs[<<ssa.preds[block][1], last.a>>]
          /\ ssa.defs[<<block, last.a>>] = last.ret

C22_Terminates == ~(panicked /\ last.op = "stack overflow")

\* the cases in which remove_branch_dest(insn, dest) is to fail
NoDestToRemove(d, insn, dest) ==
    \/ d.insns[insn].kind = "Jump"
    \/ ~is_branch(d.insns[insn])
    \/ d.insns[insn].kind = "Branch" /\ dest \notin Dests(d, insn)

(* C23: remove_branch_dest panics, and leaves the instruction and every    *)
(* user set as they were, when insn is a Jump, when insn is no branch at   *)
(* all, and when insn is a Branch none of whose destinations is dest       *)
C23_RemoveBranchDestFails ==
    [][(last'.op = "remove_branch_dest" /\ NoDestToRemove(dfg, last'.a, last'.b)) =>
        /\ panicked'
        /\ dfg'.insns = dfg.insns
        /\ dfg'.users = dfg.users]_vars

\* the call has failed on a Branch that has an operand and other destinations
C23_Witness ==
    /\ panicked
    /\ last.op = "remove_branch_dest"
    /\ dfg.insns[last.a].kind = "Branch"
    /\ last.b \notin Dests(dfg, last.a)
    /\ last.a \in users(dfg, dfg.insns[last.a].args[1])

(***************************************************************************)
(* A pass that renames branch destinations in a graph of instructions,     *)
(* some of them with results.                                              *)
(***************************************************************************)
RewriteBranchDest ==
    /\ ~panicked
    /\ \E insn \in InsnIds(dfg), from \in BlockIds, to \in BlockIds :
        /\ is_branch(dfg.insns[insn])
        /\ dfg' = rewrite_branch_dest(dfg, insn, from, to)
        /\ last' = Op("rewrite_branch_dest", insn, from, to)
    /\ UNCHANGED <<panicked, imm_hist, notDfg>>

NextRewrite ==
    \/ MakeImmValue
    \/ MakeInsn
    \/ MakeResult
    \/ RewriteBranchDest

SpecRewrite == InitDfg /\ [][NextRewrite]_vars

\* s with every from replaced by to
Renamed(s, from, to) == [k \in DOMAIN s |-> IF s[k] = from THEN to ELSE s[k]]

(* C24: rewrite_branch_dest(insn, from, to) changes only destinations of   *)
(* insn, every from becoming to: the operands of insn, every user set, the *)
(* result of insn and every other instruction are as they were             *)
C24_RewriteFrame ==
    [][last'.op = "rewrite_branch_dest" =>
        LET insn == last'.a
        IN /\ iter_dests(dfg'.insns[insn])
                = Renamed(iter_dests(dfg.insns[insn]), last'.b, last'.ret)
           /\ dfg'.insns[insn].kind = dfg.insns[insn].kind
           /\ dfg'.insns[insn].args = dfg.insns[insn].args
           /\ dfg'.users = dfg.users
           /\ dfg'.insn_results = dfg.insn_results
           /\ dfg'.values = dfg.values
           /\ OtherInsnsUnchanged(insn)]_vars

\* a destination of a branch with an operand was renamed, beside an
\* instruction that has a result
C24_Witness ==
    /\ last.op = "rewrite_branch_dest"
    /\ last.b # last.ret
    /\ last.ret \in Dests(dfg, last.a)
    /\ last.b \notin Dests(dfg, last.a)
    /\ dfg.insns[last.a].args # <<>>
    /\ \E other \in InsnIds(dfg) : insn_result(dfg, other) # None

(* C25: the arenas of the DFG only grow: no operation makes the values,    *)
(* the instructions or the blocks fewer, so every handle handed out        *)
(* earlier still names an entry                                            *)
C25_ArenasGrow ==
    [][/\ Len(dfg'.values) >= Len(dfg.values)
       /\ Len(dfg'.insns) >= Len(dfg.insns)
       /\ dfg'.nblocks >= dfg.nblocks
       /\ ValueIds(dfg) \subseteq ValueIds(dfg')
       /\ InsnIds(dfg) \subseteq InsnIds(dfg')]_vars

\* a value was aliased away: nothing uses it any more, and it is still in
\* the arena
C25_Witness ==
    /\ last.op = "change_to_alias"
    /\ last.a # last.b
    /\ last.a \in ValueIds(dfg)
    /\ users(dfg, last.a) = {}
    /\ users(dfg, last.b) # {}

\* ModuleCtx::func_sig finds no entry and its unwrap fails
func_sig_fails(m, func_ref) == func_ref \notin DOMAIN m.ctx_declared_funcs

(* C26: with declare_function and lookup_func calls interleaved, a FuncRef *)
(* that a call has returned, and any FuncRef the name index would hand     *)
(* out, has its signature in ctx.declared_funcs, so func_sig on it does    *)
(* not fail                                                                *)
C26_ReturnedHaveSig ==
    /\ \A given \in decl_hist.rets : ~func_sig_fails(mod, given[2])
    /\ \A name \in DOMAIN mod.declared_funcs :
            ~func_sig_fails(mod, lookup_func(mod, name))

(***************************************************************************)
(* FuncStore::insert and FuncStore::funcs called from several threads,     *)
(* step by step.  _guard is held by the thread that is between its lock()  *)
(* and the end of its call; each DashMap operation is atomic.              *)
(*   threads[t].func_ref   the local func_ref of insert, the local len of  *)
(*                         funcs                                           *)
(*   decl_hist.rets        <<t, call, func_ref>> for every insert that has *)
(*                         returned                                        *)
(***************************************************************************)
GuardHeld == {"insert_locked", "insert_len", "insert_done", "funcs_locked", "funcs_len"}

\* a lock() that never waits
guard_lock_NoMutex(ts) == TRUE

\* self._guard.lock(): goes on when no thread holds the guard
guard_lock(ts) == \A t \in DOMAIN ts : ts[t].pc \notin GuardHeld

\* self.funcs.len()
funcs_len(m) == Cardinality(DOMAIN m.funcs)

\* self.funcs.insert(func_ref, func): a present key gets the new function
funcs_insert(m, func_ref, func) == [m EXCEPT !.funcs = (func_ref :> func) @@ @]

\* FuncStore::funcs: (0..len).map(FuncRef::from_u32)
FuncRefsBelow(len) == 0..(len - 1)

storeFrame == <<parVars, dfg, imm_hist, panicked, bldVars>>

\* let _guard = self._guard.lock().unwrap()
InsertLock(t) ==
    /\ threads[t].pc = "idle"
    /\ threads[t].calls < MaxCalls
    /\ guard_lock(threads)
    /\ threads' = [threads EXCEPT ![t].pc = "insert_locked", ![t].sig = ParSig]
    /\ UNCHANGED <<mod, decl_hist, last, storeFrame>>

\* let func_ref = FuncRef::from_u32(self.funcs.len() as u32)
InsertLen(t) ==
    /\ threads[t].pc = "insert_locked"
    /\ threads' = [threads EXCEPT ![t].pc = "insert_len", ![t].func_ref = funcs_len(mod)]
    /\ UNCHANGED <<mod, decl_hist, last, storeFrame>>

\* self.funcs.insert(func_ref, func)
InsertPut(t) ==
    /\ threads[t].pc = "insert_len"
    /\ mod' = funcs_insert(mod, threads[t].func_ref, Function_new(threads[t].sig))
    /\ threads' = [threads EXCEPT ![t].pc = "insert_done"]
    /\ UNCHANGED <<decl_hist, last, storeFrame>>

\* func_ref is returned and the guard dropped
InsertReturn(t) ==
    /\ threads[t].pc = "insert_done"
    /\ decl_hist' = [decl_hist EXCEPT
            !.rets = @ \cup {<<t, threads[t].calls, threads[t].func_ref>>}]
    /\ last' = Op("insert", t, 0, threads[t].func_ref)
    /\ threads' = [threads EXCEPT ![t] =
            [InitThread EXCEPT !.calls = threads[t].calls + 1]]
    /\ UNCHANGED <<mod, storeFrame>>

\* funcs: let _guard = self._guard.lock().unwrap()
FuncsLock(t) ==
    /\ threads[t].pc = "idle"
    /\ threads[t].calls < MaxCalls
    /\ guard_lock(threads)
    /\ threads' = [threads EXCEPT ![t].pc = "funcs_locked"]
    /\ UNCHANGED <<mod, decl_hist, last, storeFrame>>

\* let len = self.funcs.len()
FuncsLen(t) ==
    /\ threads[t].pc = "funcs_locked"
    /\ threads' = [threads EXCEPT ![t].pc = "funcs_len", ![t].func_ref = funcs_len(mod)]
    /\ UNCHANGED <<mod, decl_hist, last, storeFrame>>

\* the vector 0..len is returned and the guard dropped
FuncsReturn(t) ==
    /\ threads[t].pc = "funcs_len"
    /\ last' = Op("funcs", t, 0, threads[t].func_ref)
    /\ threads' = [threads EXCEPT ![t] =
            [InitThread EXCEPT !.calls = threads[t].calls + 1]]
    /\ UNCHANGED <<mod, decl_hist, storeFrame>>

NextStore ==
    \E t \in Threads :
        \/ InsertLock(t)
        \/ InsertLen(t)
        \/ InsertPut(t)
        \/ InsertReturn(t)
        \/ FuncsLock(t)
        \/ FuncsLen(t)
        \/ FuncsReturn(t)

SpecStore == InitMod /\ [][NextStore]_vars

\* the inserts that have put their function: those that returned and those
\* about to
Inserted(ts, h) ==
    Cardinality(h.rets) + Cardinality({t \in DOMAIN ts : ts[t].pc = "insert_done"})

\* the FuncRefs inserts have returned
ReturnedRefs(h) == {given[3] : given \in h.rets}

(* C27: with insert and funcs calls of several threads interleaved, no two *)
(* inserts return the same FuncRef, the keys stored after n inserts are    *)
(* 0..n-1, and funcs returns the keys stored when it returns               *)
C27_DenseFuncRefs ==
    [][/\ Cardinality(ReturnedRefs(decl_hist')) = Cardinality(decl_hist'.rets)
       /\ DOMAIN mod'.funcs = FuncRefsBelow(Inserted(threads', decl_hist'))
       /\ \A t \in Threads :
            threads[t].pc = "funcs_len" /\ threads'[t].pc = "idle" =>
                FuncRefsBelow(last'.ret) = DOMAIN mod'.funcs]_vars

\* inserts of two threads have returned, and a funcs call then returned two
\* keys or more
C27_Witness ==
    /\ last.op = "funcs"
    /\ last.ret >= 2
    /\ \E given \in decl_hist.rets, other \in decl_hist.rets : given[1] # other[1]

====
